---- MODULE Spec2Model ----
(***************************************************************************)
(* A model of the hotel-inventory client of src/src/services/booking.ts:   *)
(* the token cache (getAmadeusAccessToken), the location lookup            *)
(* (getCityCode), the search server action (searchHotels), the offer       *)
(* normalizer (transformAmadeusHotelOffer), the location suggestions       *)
(* (suggestLocations), the simulated booking (simulateBookHotel) and the   *)
(* trip store in localStorage (getTrips, addTrip, removeTrip, updateTrip). *)
(*                                                                         *)
(* Time is counted in units of 60 seconds, the safety buffer that          *)
(* getAmadeusAccessToken subtracts from the lifetime of a token (60000 ms  *)
(* at booking.ts:124); expires_in is counted in the same unit.             *)
(*                                                                         *)
(* JavaScript runs every handler to completion between two awaits of real  *)
(* I/O, so one action is the code between two network suspensions; the     *)
(* provider's answers and the passing of time are the environment.         *)
(***************************************************************************)
EXTENDS Integers, Sequences, FiniteSets, TLC

\* ------------------------------------------------------------- bounds
MaxTime == 3
MaxLifetime == 2
MaxTokens == 2
MaxCandidates == 2
MaxOffers == 2


\* ------------------------------------------------- program constants
\* booking.ts:124, "- 60000": the safety buffer, one time unit.
ExpiryBuffer == 1

\* ------------------------------------------------------------ values
NoDate == 0
\* Days of the calendar: 2 is one day after 1.
Dates == {1, 2}
GuestCounts == {0, 1}
NoCode == ""
\* cachedToken = null (booking.ts:71); issued tokens are numbered from 1.
NoToken == [token |-> 0, expiry |-> 0]
NoRequest == [kind |-> "none", bearer |-> 0, resp |-> <<>>]

\* HotelSearchCriteria (types/index.ts:29-35); "" stands for an absent or
\* empty string, NoDate for an absent date.
Criteria ==
    [city : {"", "Paris"}, cityCode : {NoCode, "PAR"},
     checkInDate : {NoDate} \cup Dates, checkOutDate : {NoDate} \cup Dates,
     numberOfGuests : GuestCounts]

\* --------------------------------------------------- error messages
\* An Error's message is the sequence of its parts. String.includes of the
\* code is membership of a part, or of a part that contains the needle.
SubParts ==
    {<<"Server configuration error:", "Server configuration error">>,
     <<"fetch failed", "fetch">>}
Includes(msg, needle) ==
    \E i \in 1..Len(msg) : msg[i] = needle \/ <<msg[i], needle>> \in SubParts

MsgMissingDates ==
    <<"Missing required search criteria:", "Check-in and check-out dates are required.">>
MsgMissingCity ==
    <<"Missing required search criteria:", "City name or City Code is required.">>
MsgDateRange ==
    <<"Validation Error:", "Check-out date must be after check-in date.">>
MsgGuests ==
    <<"Validation Error:", "Number of guests must be at least 1.">>
MsgCredentialsToken ==
    <<"Server configuration error:", "API credentials missing or invalid.">>
MsgCredentialsSearch ==
    <<"Server configuration error:", "API credentials missing.">>
MsgNoLocation ==
    <<"Could not determine location code", "for city">>

\* booking.ts:329: `Failed to prepare search: ${lookupError.message}`
PrepareFailedNoCause(msg) == <<"Failed to prepare search">>
PrepareFailed(msg) == <<"Failed to prepare search">> \o msg

\* ------------------------------------------------------ TokenManager
\* booking.ts:82: cachedToken && cachedToken.expiry > now
CacheValidInverted(cache, t) == cache # NoToken /\ cache.expiry < t
CacheValid(cache, t) == cache # NoToken /\ cache.expiry > t

\* booking.ts:88: !AMADEUS_API_KEY || !AMADEUS_API_SECRET
CredentialsMissingBoth(key, secret) == ~key /\ ~secret
CredentialsMissing(key, secret) == ~key \/ ~secret

\* booking.ts:124: now + (tokenData.expires_in * 1000) - 60000
ExpiryTimeNoBuffer(t, expires_in) == t + expires_in
ExpiryTime(t, expires_in) == t + expires_in - ExpiryBuffer

\* What the token endpoint can answer: 2xx with a token, 2xx with a body that
\* is not JSON, 401 invalid_client, another non-2xx, or no answer at all
\* (fetch rejects).
TokenFailures == {"invalid_client", "rejected", "badjson", "transport"}

\* booking.ts:109-121 and the exceptions of fetch and JSON.parse: the error
\* that reaches the catch of line 129.
TokenInnerMessage(class) ==
    CASE class = "invalid_client" -> <<"Amadeus auth failed", "Invalid API Key or Secret">>
      [] class = "rejected" -> <<"Amadeus auth failed", "status">>
      [] class = "badjson" -> <<"Unexpected token">>
      [] OTHER -> <<"fetch failed">>

\* booking.ts:129-140
TokenCatch(inner) ==
    <<"Failed to get Amadeus token:">> \o
    (IF Includes(inner, "Invalid API Key or Secret") THEN <<"Invalid Credentials">>
     ELSE IF Includes(inner, "Amadeus auth failed") THEN inner
     ELSE IF Includes(inner, "Server configuration error") THEN inner
     ELSE <<"Authentication Error">>)

\* ---------------------------------------------------- LocationResolver
\* String.toUpperCase on the names of the model.
Names == {"Paris", "PARIS", "Lyon"}
NoName == ""
ToUpper(s) == IF s = "Paris" THEN "PARIS" ELSE IF s = "Lyon" THEN "LYON" ELSE s

SubTypes == {"CITY", "AIRPORT"}
Codes == {"PAR", "XYZ"}
\* AmadeusLocation (name, subType, iataCode), absent fields as "".
Candidates ==
    [name : Names \cup {NoName}, subType : SubTypes, iataCode : Codes \cup {NoCode}]

\* booking.ts:172-176, the predicate of the first find
IsExactMatchAnyKind(loc, cityName) ==
    /\ loc.iataCode # NoCode
    /\ loc.name # NoName
    /\ ToUpper(loc.name) = ToUpper(cityName)
IsExactMatch(loc, cityName) ==
    /\ loc.subType = "CITY"
    /\ loc.iataCode # NoCode
    /\ loc.name # NoName
    /\ ToUpper(loc.name) = ToUpper(cityName)

\* booking.ts:183, the predicate of the second find
IsCityWithCode(loc) == loc.subType = "CITY" /\ loc.iataCode # NoCode

\* Array.prototype.find (booking.ts:172): the index of the first exact match,
\* 0 when there is none.
ExactIndex(data, cityName) ==
    IF \E i \in 1..Len(data) : IsExactMatch(data[i], cityName)
    THEN CHOOSE i \in 1..Len(data) :
            /\ IsExactMatch(data[i], cityName)
            /\ \A j \in 1..(i - 1) : ~IsExactMatch(data[j], cityName)
    ELSE 0

\* Array.prototype.find (booking.ts:183): the index of the first CITY with a
\* code, 0 when there is none.
CityIndex(data) ==
    IF \E i \in 1..Len(data) : IsCityWithCode(data[i])
    THEN CHOOSE i \in 1..Len(data) :
            /\ IsCityWithCode(data[i])
            /\ \A j \in 1..(i - 1) : ~IsCityWithCode(data[j])
    ELSE 0

\* booking.ts:188-190: what follows the two finds.
\* (An earlier revision, unnamed/part_001:143-147, fell back here to the code
\* of the first candidate.)
NoCityFallbackFirst(data) ==
    IF data[1].iataCode # NoCode THEN data[1].iataCode ELSE NoCode
NoCityFallback(data) == NoCode

\* booking.ts:170-190: the matching on a parsed 2xx body.
MatchCandidates(cityName, data) ==
    IF Len(data) > 0
    THEN IF ExactIndex(data, cityName) # 0
         THEN data[ExactIndex(data, cityName)].iataCode
         ELSE IF CityIndex(data) # 0
              THEN data[CityIndex(data)].iataCode
              ELSE NoCityFallback(data)
    ELSE NoCode

\* What the location endpoint can answer: 2xx with a candidate list, non-2xx,
\* 2xx with a body that is not JSON, or no answer (fetch rejects).
\* booking.ts:155-194: getCityCode returns null on everything but a match.
GetCityCodeRethrows(cityName, resp) ==
    IF resp.class = "ok" THEN MatchCandidates(cityName, resp.data)
    ELSE IF resp.class = "transport" THEN "fetch failed" ELSE NoCode
GetCityCode(cityName, resp) ==
    IF resp.class = "ok" THEN MatchCandidates(cityName, resp.data) ELSE NoCode

\* ------------------------------------------------------ OfferNormalizer
\* AmadeusHotelOffer as the filter and the normalizer read it
\* (types/index.ts:63-130): hotel (the record is present), hotel.hotelId,
\* hotel.name, hotel.rating, hotel.address (the record is present),
\* hotel.address.cityName, available, and offers, each with price (the block
\* is present), price.total and price.currency; "" is an absent string.
HotelIds == {"H1", "H2"}
NoSubOffer == [price |-> FALSE, total |-> "", currency |-> ""]
SubOffer(total, currency) == [price |-> TRUE, total |-> total, currency |-> currency]
RawOffers ==
    [hotel : {TRUE}, hotelId : HotelIds \cup {""}, name : {"Ritz", ""},
     rating : {"4"}, address : {TRUE}, cityName : {"Paris"},
     available : BOOLEAN, offers : {<<SubOffer("300.00", "USD")>>, <<>>}]
        \cup [hotel : {FALSE}, hotelId : {""}, name : {""},
              rating : {""}, address : {FALSE}, cityName : {""},
              available : BOOLEAN, offers : {<<SubOffer("300.00", "USD")>>, <<>>}]

\* parseFloat on the totals of the model.
ParseFloat(s) == IF s = "300.00" THEN 300 ELSE IF s = "89.00" THEN 89 ELSE 0

\* parseInt(s, 10) on the ratings of the model: <<n>> for the leading integer
\* n, NaN when there is none.
NaN == <<>>
RatingTexts == {"", "0", "1", "3", "5", "6", "4.7", "-2", "abc"}
ParseInt(s) ==
    CASE s = "0" -> <<0>> [] s = "1" -> <<1>> [] s = "3" -> <<3>> [] s = "4" -> <<4>>
      [] s = "5" -> <<5>> [] s = "6" -> <<6>> [] s = "4.7" -> <<4>>
      [] s = "-2" -> <<0 - 2>>
      [] OTHER -> NaN

\* booking.ts:26-27: offer.offers?.[0], and the price block of it.
OfferDetailsLast(offer) ==
    IF Len(offer.offers) > 0 THEN offer.offers[Len(offer.offers)] ELSE NoSubOffer
OfferDetails(offer) ==
    IF Len(offer.offers) > 0 THEN offer.offers[1] ELSE NoSubOffer

\* offerPrice?.total and offerPrice?.currency ("" when undefined)
OfferTotal(offer) ==
    IF OfferDetails(offer).price THEN OfferDetails(offer).total ELSE ""
OfferCurrency(offer) ==
    IF OfferDetails(offer).price THEN OfferDetails(offer).currency ELSE ""

\* booking.ts:39: hotelData.rating ? parseInt(hotelData.rating, 10) : 0
RatingValue(offer) == IF offer.rating # "" THEN ParseInt(offer.rating) ELSE <<0>>

\* booking.ts:40: isNaN(ratingValue) || ratingValue < 1 || ratingValue > 5
IsInvalidRatingNoUpperBound(ratingValue) == ratingValue = NaN \/ ratingValue[1] < 1
IsInvalidRating(ratingValue) ==
    ratingValue = NaN \/ ratingValue[1] < 1 \/ ratingValue[1] > 5

\* Ratings are counted in tenths. booking.ts:41:
\* parseFloat((Math.random() * 1.5 + 3.0).toFixed(1)), with Math.random() in
\* [0, 1): one of 3.0, 3.1, ..., 4.5.
RandomRatings == 30..45

\* booking.ts:54: `unknown-${Math.random()}`, two of its values.
RandomIds == {"unknown-0.25", "unknown-0.75"}

\* What Math.random yields to one run of the normalizer: nothing where the
\* run does not call it. Without a hotel record the run ends at line 30,
\* before either call.
NoDraw == [id |-> "", rating |-> 0]
DrawsOf(offer) ==
    IF ~offer.hotel THEN {NoDraw}
    ELSE [id : IF offer.hotelId # "" THEN {""} ELSE RandomIds,
          rating : IF IsInvalidRating(RatingValue(offer)) THEN RandomRatings ELSE {0}]

\* booking.ts:30: hotelData.media of an undefined hotelData
TypeErrorThrown == [thrown |-> "TypeError"]

\* booking.ts:24-67: the Hotel of an offer, its id, name, address, city,
\* price, rating and currency; the address of the model is its cityName
\* alone.
TransformAmadeusHotelOffer(offer, draw) ==
    IF ~offer.hotel
    THEN TypeErrorThrown
    ELSE [id |-> IF offer.hotelId # "" THEN offer.hotelId ELSE draw.id,
          name |-> IF offer.name # "" THEN offer.name ELSE "Hotel Name Unavailable",
          address |-> IF offer.address /\ offer.cityName # ""
                      THEN offer.cityName ELSE "Address Unavailable",
          city |-> IF offer.address /\ offer.cityName # ""
                   THEN offer.cityName ELSE "City Unavailable",
          pricePerNight |-> IF OfferTotal(offer) # ""
                            THEN ParseFloat(OfferTotal(offer)) ELSE 0,
          rating |-> IF IsInvalidRating(RatingValue(offer))
                     THEN draw.rating ELSE RatingValue(offer)[1] * 10,
          currency |-> IF OfferCurrency(offer) # ""
                       THEN OfferCurrency(offer) ELSE "USD"]

\* ------------------------------------------------- SearchOrchestrator
\* booking.ts:430-433, the predicate of the filter
\* (an earlier revision, unnamed/part_001:356, asked for the hotel record and
\* the price alone)
IsValidOfferNoIdentity(offer) == offer.hotel /\ OfferTotal(offer) # ""
IsValidOffer(offer) ==
    /\ offer.hotel /\ offer.hotelId # "" /\ offer.name # ""
    /\ offer.available /\ OfferTotal(offer) # ""

\* booking.ts:430: data.data.filter(...)
ValidOffers(data) == SelectSeq(data, IsValidOffer)

\* booking.ts:438: validOffers.slice(0, 20)
ResultLimit == 20
NoLimit(validOffers) == validOffers
LimitResults(validOffers) ==
    SubSeq(validOffers, 1,
           IF Len(validOffers) < ResultLimit THEN Len(validOffers) ELSE ResultLimit)

\* booking.ts:440: limitedResults.map(transformAmadeusHotelOffer), each run
\* with its own draws.
TransformAll(offers, draws) ==
    [i \in 1..Len(offers) |-> TransformAmadeusHotelOffer(offers[i], draws[i])]

\* The draws of the runs of line 440, one list for each outcome.
RECURSIVE DrawLists(_)
DrawLists(offers) ==
    IF offers = <<>> THEN {<<>>}
    ELSE {<<draw>> \o rest : draw \in DrawsOf(Head(offers)), rest \in DrawLists(Tail(offers))}

\* What the availability endpoint can answer. 2xx: a JSON body with its data
\* (no data array is an empty one: both fail `data?.data?.length > 0`), or a
\* body that is not JSON. Non-2xx: a JSON body with errors[0], a JSON body
\* without errors, a body that is not JSON. Or no answer (fetch rejects).
SearchClasses ==
    {"ok", "okBadJson", "errApi", "errNoErrors", "errNotJson", "transport"}

\* The non-2xx statuses of the model, and String(status).
HttpErrors == {400, 401, 403, 404, 500}
StatusText(status) ==
    CASE status = 400 -> "400" [] status = 401 -> "401" [] status = 403 -> "403"
      [] status = 404 -> "404" [] OTHER -> "500"

\* errors[0] of the provider: status (0 when absent), code and title ("" when
\* absent). Codes are written as the provider's numbers read.
NoAvailabilityCodes == {"38196", "477", "574", "904"}
ApiCodes == {"38196", "4926", "1234", ""}
ApiTitles == {"INVALID DATE", ""}
NoFirstError == [status |-> 0, code |-> "", title |-> ""]

SearchResponse(class, status, first, data) ==
    [class |-> class, status |-> status, first |-> first, data |-> data]

\* booking.ts:401-418: the message built from errors[0].
ApiErrorMessage(status, first) ==
    LET errorCode == IF first.code # "" THEN first.code ELSE StatusText(status)
    IN  IF errorCode \in NoAvailabilityCodes
        THEN <<"No hotels found", "This could be due to no availability or invalid dates/parameters.",
               errorCode>>
        ELSE IF first.status = 400 \/ errorCode = "4926"
        THEN <<"Search", "request invalid", errorCode>>
        ELSE IF first.status = 401
        THEN <<"Authentication failed with hotel service.", errorCode>>
        ELSE IF first.status = 403
        THEN <<"Permission denied by hotel service.", errorCode>>
        ELSE IF first.status >= 500
        THEN <<"Hotel", "service temporary error", errorCode>>
        ELSE <<"Search failed:",
               IF first.title # "" THEN first.title ELSE "Unknown API Error",
               errorCode>>

\* booking.ts:395-451 and the exceptions of fetch and JSON.parse: the error
\* that reaches the catch of line 453 when no Hotel is returned.
SearchInnerMessage(resp) ==
    CASE resp.class = "ok" /\ Len(resp.data) > 0 ->
            <<"While offers were found", "none met the availability">>
      [] resp.class = "ok" ->
            <<"No hotels found", "Please try different dates or another location.">>
      [] resp.class = "okBadJson" -> <<"Unexpected token">>
      [] resp.class = "errApi" -> ApiErrorMessage(resp.status, resp.first)
      [] resp.class = "errNoErrors" ->
            <<"Amadeus v2 hotel search failed:", StatusText(resp.status)>>
      [] resp.class = "errNotJson" ->
            <<"Hotel", "service communication error", StatusText(resp.status)>>
      [] OTHER -> <<"fetch failed">>

\* booking.ts:465-485: the message searchHotels throws from its catch.
UserMessage(msg) ==
    IF Includes(msg, "Server configuration error:")
    THEN <<"Server configuration error:", "API credentials missing or invalid. Please contact support.">>
    ELSE IF Includes(msg, "Failed to get Amadeus token:") \/ Includes(msg, "Amadeus auth failed")
    THEN <<"Authentication with the hotel service failed.",
           IF Includes(msg, "Invalid Credentials")
           THEN "Check server API credentials."
           ELSE "Please contact support if this persists.">>
    ELSE IF \/ Includes(msg, "Search failed:")
            \/ Includes(msg, "No hotels found")
            \/ Includes(msg, "request invalid")
            \/ Includes(msg, "service temporary error")
            \/ Includes(msg, "service communication error")
            \/ Includes(msg, "none met the availability")
    THEN msg
    ELSE IF Includes(msg, "Could not determine location code") \/ Includes(msg, "Failed to prepare search")
    THEN msg
    ELSE IF Includes(msg, "Validation Error:")
    THEN msg
    ELSE IF Includes(msg, "fetch") \/ Includes(msg, "NetworkError")
    THEN <<"Network error:", "Could not reach the hotel search service.">>
    ELSE <<"An unexpected error occurred during the hotel search.">>

\* booking.ts:321: !cityCode after the lookup
LookupAlwaysProceeds(code) == FALSE
LookupFailed(code) == code = NoCode

\* booking.ts:333: criteria.checkOutDate <= criteria.checkInDate
DateRangeInvalid(criteria) == criteria.checkOutDate <= criteria.checkInDate

\* booking.ts:338: !criteria.numberOfGuests || criteria.numberOfGuests < 1
GuestsInvalid(criteria) == criteria.numberOfGuests = 0 \/ criteria.numberOfGuests < 1

\* --------------------------------------------------- LocationSuggester
\* Strings that the code measures or matches are sequences of characters.
Text(n, ch) == [i \in 1..n |-> ch]

\* String.prototype.trim: the string from its first to its last character
\* that is not white space; the blank is the white space of the model.
Trim(s) ==
    LET inked == {i \in 1..Len(s) : s[i] # " "}
    IN  IF inked = {} THEN <<>>
        ELSE SubSeq(s, CHOOSE i \in inked : \A j \in inked : i <= j,
                       CHOOSE i \in inked : \A j \in inked : i >= j)

\* booking.ts:207: !query || query.trim().length < 2
QueryTooShortUntrimmed(query) == query = <<>> \/ Len(query) < 2
QueryTooShort(query) == query = <<>> \/ Len(Trim(query)) < 2

\* booking.ts:264, the predicate of the filter
IsSuggestable(loc) == loc.subType = "CITY" /\ loc.iataCode # NoCode

\* booking.ts:265-276: the LocationSuggestion of a location; no location of
\* the model has an address, so the name stands without a country code.
ToSuggestion(loc) ==
    [id |-> loc.iataCode, name |-> loc.name, iataCode |-> loc.iataCode,
     subType |-> loc.subType]

\* booking.ts:250-289: suggestLocations from the answer of its fetch.
SuggestionsOf(resp) ==
    IF resp.class = "ok" /\ Len(resp.data) > 0
    THEN LET kept == SelectSeq(resp.data, IsSuggestable)
         IN  [i \in 1..Len(kept) |-> ToSuggestion(kept[i])]
    ELSE <<>>

\* ------------------------------------------------------------- Booking
\* PaymentDetails (types/index.ts:38-45); <<>> is an absent or empty string.
Digits == {"0", "1", "2", "3", "4", "5", "6", "7", "8", "9"}
IsDigits(s) == \A i \in 1..Len(s) : s[i] \in Digits

\* booking.ts:516: /^\d{16}$/
CardNumberMatches(s) == Len(s) = 16 /\ IsDigits(s)

\* booking.ts:517: /^(0[1-9]|1[0-2])\/\d{2}$/
ExpiryDateMatches(s) ==
    /\ Len(s) = 5
    /\ \/ s[1] = "0" /\ s[2] \in Digits \ {"0"}
       \/ s[1] = "1" /\ s[2] \in {"0", "1", "2"}
    /\ s[3] = "/"
    /\ s[4] \in Digits /\ s[5] \in Digits

\* booking.ts:518: /^\d{3,4}$/
CvcMatches(s) == Len(s) \in {3, 4} /\ IsDigits(s)

\* booking.ts:520: /^[^\s@]+@[^\s@]+\.[^\s@]+$/
PaypalEmailMatches(s) ==
    \E at \in 1..Len(s) : \E dot \in 1..Len(s) :
        /\ s[at] = "@" /\ s[dot] = "."
        /\ 1 < at /\ at + 1 < dot /\ dot < Len(s)
        /\ \A i \in (1..Len(s)) \ {at} : s[i] \notin {" ", "@"}

\* booking.ts:514-522: paymentValid
PaymentValidWithoutCvc(paymentDetails) ==
    IF paymentDetails.method \in {"creditCard", "debitCard"}
    THEN /\ paymentDetails.cardNumber # <<>> /\ CardNumberMatches(paymentDetails.cardNumber)
         /\ paymentDetails.expiryDate # <<>> /\ ExpiryDateMatches(paymentDetails.expiryDate)
    ELSE IF paymentDetails.method = "paypal"
    THEN paymentDetails.paypalEmail # <<>> /\ PaypalEmailMatches(paymentDetails.paypalEmail)
    ELSE FALSE
PaymentValid(paymentDetails) ==
    IF paymentDetails.method \in {"creditCard", "debitCard"}
    THEN /\ paymentDetails.cardNumber # <<>> /\ CardNumberMatches(paymentDetails.cardNumber)
         /\ paymentDetails.expiryDate # <<>> /\ ExpiryDateMatches(paymentDetails.expiryDate)
         /\ paymentDetails.cvc # <<>> /\ CvcMatches(paymentDetails.cvc)
    ELSE IF paymentDetails.method = "paypal"
    THEN paymentDetails.paypalEmail # <<>> /\ PaypalEmailMatches(paymentDetails.paypalEmail)
    ELSE FALSE

\* booking.ts:526
MsgPaymentInvalid ==
    <<"Simulated payment validation failed.", "Please check payment details.">>

\* booking.ts:531: const totalPrice = hotel.pricePerNight
\* (an earlier revision, booking.ts:751-752, multiplied the price by the
\* nights and the guests)
TotalPriceByNights(hotel, checkInDate, checkOutDate, numberOfGuests) ==
    (checkOutDate - checkInDate) * hotel.pricePerNight * numberOfGuests
TotalPrice(hotel, checkInDate, checkOutDate, numberOfGuests) == hotel.pricePerNight

\* Trip (types/index.ts:20-28); trips are numbered by their ids.
NoTrip ==
    [id |-> 0, hotel |-> [id |-> ""], checkInDate |-> NoDate, checkOutDate |-> NoDate,
     numberOfGuests |-> 0, totalPrice |-> 0, status |-> "none"]
NoPayment ==
    [method |-> "none", cardNumber |-> <<>>, expiryDate |-> <<>>, cvc |-> <<>>,
     paypalEmail |-> <<>>]

\* booking.ts:501-546: simulateBookHotel, id being the id that line 535
\* makes of Date.now() and Math.random().
SimulateBookHotel(hotel, checkInDate, checkOutDate, numberOfGuests, paymentDetails, id) ==
    IF ~PaymentValid(paymentDetails)
    THEN [error |-> MsgPaymentInvalid, trip |-> NoTrip]
    ELSE [error |-> <<>>,
          trip |-> [id |-> id, hotel |-> hotel,
                    checkInDate |-> checkInDate, checkOutDate |-> checkOutDate,
                    numberOfGuests |-> numberOfGuests,
                    totalPrice |-> TotalPrice(hotel, checkInDate, checkOutDate,
                                              numberOfGuests),
                    status |-> "upcoming"]]

\* ----------------------------------------------------------- TripStore
\* booking.ts:573-577, the predicate of the filter of getTrips; every trip
\* of the model has a hotel record and dates that parse.
IsReadableTrip(trip) ==
    trip.hotel.id # "" /\ trip.checkOutDate > trip.checkInDate

\* booking.ts:556-583: getTrips in the browser, on an item that parses.
GetTrips(store) == SelectSeq(store, IsReadableTrip)

\* booking.ts:594-601: addTrip from the return of getTrips; the item that
\* localStorage holds afterwards.
AddTripWrite(existingTrips, trip, store) ==
    IF \E i \in 1..Len(existingTrips) : existingTrips[i].id = trip.id
    THEN store
    ELSE Append(existingTrips, trip)

\* booking.ts:618-626: removeTrip from the return of getTrips.
RemoveTripWrite(existingTrips, tripId, store) ==
    LET keep(trip) == trip.id # tripId
        updatedTrips == SelectSeq(existingTrips, keep)
    IN  IF Len(existingTrips) # Len(updatedTrips) THEN updatedTrips ELSE store

\* booking.ts:641-661: updateTrip from the return of getTrips.
UpdateTripWrite(existingTrips, updatedTrip, store) ==
    IF \E i \in 1..Len(existingTrips) : existingTrips[i].id = updatedTrip.id
    THEN [i \in 1..Len(existingTrips) |->
             IF existingTrips[i].id = updatedTrip.id THEN updatedTrip
             ELSE existingTrips[i]]
    ELSE store

VARIABLES
    apiKey,       \* AMADEUS_API_KEY is set (booking.ts:12)
    apiSecret,    \* AMADEUS_API_SECRET is set (booking.ts:13)
    now,          \* Date.now(), in units of 60 s
    cachedToken,  \* booking.ts:71
    issued,       \* the provider's tokens: issued[t] = when, and for how long
    call,         \* each invocation of searchHotels: its position and locals
    net,          \* each invocation's outbound request in flight
    rQuery,       \* getCityCode on its own: the cityName
    rResp,        \* getCityCode on its own: the answer of the location endpoint
    rResult,      \* getCityCode on its own: <<>> before it returns, then <<code>>
    nRaw,         \* transformAmadeusHotelOffer on its own: the offer
    nOut,         \* transformAmadeusHotelOffer on its own: <<>>, then <<its outcome>>
    sug,          \* each invocation of suggestLocations: its position and locals
    ecoTrips,     \* the item 'ecoTrips' of localStorage, parsed: the stored trips
    op            \* each operation on the trip store: its position and locals

vars == <<apiKey, apiSecret, now, cachedToken, issued, call, net,
          rQuery, rResp, rResult, nRaw, nOut, sug, ecoTrips, op>>
resolveVars == <<rQuery, rResp, rResult>>
sideVars == <<nRaw, nOut, sug, ecoTrips, op>>

NoCriteria ==
    [city |-> "", cityCode |-> NoCode, checkInDate |-> NoDate,
     checkOutDate |-> NoDate, numberOfGuests |-> 0]

\* An invocation that has not started. nGet counts its calls of
\* getAmadeusAccessToken; nTok, nLoc and nAvail count the requests it has
\* issued. While getAmadeusAccessToken awaits its
\* fetch, site is where it was called from and gtNow is its `now`
\* (booking.ts:79). data is <<>> until the body of the availability answer is
\* parsed (booking.ts:427), then <<data.data>>. tokenError is the message of
\* the error getAmadeusAccessToken threw to this invocation, and retry tells
\* that the caller's previous invocation ended on such an error of the token
\* endpoint.
IdleCall ==
    [pc |-> "idle", criteria |-> NoCriteria, cityCode |-> NoCode, site |-> "none",
     gtNow |-> 0, error |-> <<>>, hotels |-> <<>>, data |-> <<>>,
     tokenError |-> <<>>, retry |-> FALSE,
     nGet |-> 0, nTok |-> 0, nLoc |-> 0, nAvail |-> 0]

\* The effect of one run of code up to its next suspension: the invocation's
\* new locals, the request it leaves in flight, and the cache.
Effect(rec, req, cache) == [rec |-> rec, req |-> req, cache |-> cache]

Request(kind, bearer) == [kind |-> kind, bearer |-> bearer, resp |-> <<>>]

\* A throw that leaves searchHotels.
Throw(rec, msg, cache) ==
    Effect([rec EXCEPT !.pc = "done", !.error = msg], NoRequest, cache)

\* booking.ts:384-388: the availability request, bearer attached.
ExecuteSearch(rec, tok, cache) ==
    Effect([rec EXCEPT !.pc = "awaitSearch", !.nAvail = @ + 1],
           Request("search", tok), cache)

\* booking.ts:156-160: the location request of getCityCode, bearer attached.
LookupCity(rec, tok, cache) ==
    Effect([rec EXCEPT !.pc = "awaitLocation", !.nLoc = @ + 1],
           Request("location", tok), cache)

\* booking.ts:78-105: getAmadeusAccessToken up to its fetch, called at `site`
\* (319: for the lookup; 357: for the availability query), and what the
\* caller does with a token returned or an error thrown at once.
GetTokenStart(rec0, site) ==
    LET rec == [rec0 EXCEPT !.nGet = @ + 1]
    IN  IF CacheValid(cachedToken, now)
        THEN IF site = "lookup"
             THEN LookupCity(rec, cachedToken.token, cachedToken)
             ELSE ExecuteSearch(rec, cachedToken.token, cachedToken)
        ELSE IF CredentialsMissing(apiKey, apiSecret)
        THEN IF site = "lookup"
             THEN Throw([rec EXCEPT !.tokenError = MsgCredentialsToken],
                        PrepareFailed(MsgCredentialsToken), cachedToken)
             ELSE Throw([rec EXCEPT !.tokenError = MsgCredentialsToken],
                        UserMessage(MsgCredentialsToken), cachedToken)
        ELSE Effect([rec EXCEPT !.pc = "awaitToken", !.site = site, !.gtNow = now,
                                !.nTok = @ + 1],
                    Request("token", 0), cachedToken)

\* booking.ts:333-358: the checks that follow the lookup, then the token for
\* the availability query.
ValidateAndSearch(rec) ==
    IF DateRangeInvalid(rec.criteria)
    THEN Throw(rec, MsgDateRange, cachedToken)
    ELSE IF GuestsInvalid(rec.criteria)
    THEN Throw(rec, MsgGuests, cachedToken)
    ELSE IF CredentialsMissing(apiKey, apiSecret)
    THEN Throw(rec, MsgCredentialsSearch, cachedToken)
    ELSE GetTokenStart(rec, "main")

\* booking.ts:299-331: searchHotels from its call to its first suspension.
StartSearch(rec) ==
    IF rec.criteria.checkInDate = NoDate \/ rec.criteria.checkOutDate = NoDate
    THEN Throw(rec, MsgMissingDates, cachedToken)
    ELSE IF rec.cityCode = NoCode
    THEN IF rec.criteria.city = ""
         THEN Throw(rec, MsgMissingCity, cachedToken)
         ELSE GetTokenStart(rec, "lookup")
    ELSE ValidateAndSearch(rec)

\* booking.ts:129-140: the catch of getAmadeusAccessToken leaves cachedToken
\* as it was.
CacheAfterFailurePoisoned(cache) == [token |-> 0, expiry |-> MaxTime + 1]
CacheAfterFailure(cache) == cache

\* booking.ts:107-140: getAmadeusAccessToken from the answer of its fetch, and
\* what the caller does next.
TokenAnswered(rec0, resp) ==
    LET rec == [rec0 EXCEPT !.site = "none", !.gtNow = 0]
    IN  IF resp.class = "ok"
        THEN LET cache == [token |-> resp.access_token,
                           expiry |-> ExpiryTime(rec0.gtNow, resp.expires_in)]
             IN  IF rec0.site = "lookup"
                 THEN LookupCity(rec, resp.access_token, cache)
                 ELSE ExecuteSearch(rec, resp.access_token, cache)
        ELSE LET thrown == TokenCatch(TokenInnerMessage(resp.class))
                 failed == [rec EXCEPT !.tokenError = thrown]
             IN  IF rec0.site = "lookup"
                 THEN Throw(failed, PrepareFailed(thrown), CacheAfterFailure(cachedToken))
                 ELSE Throw(failed, UserMessage(thrown), CacheAfterFailure(cachedToken))

\* booking.ts:320-331: searchHotels from the return of getCityCode.
LocationAnswered(rec, resp) ==
    IF LookupFailed(GetCityCode(rec.criteria.city, resp))
    THEN Throw(rec, PrepareFailed(MsgNoLocation), cachedToken)
    ELSE ValidateAndSearch([rec EXCEPT !.cityCode = GetCityCode(rec.criteria.city, resp)])

\* booking.ts:390-488: searchHotels from the answer of the availability
\* request.
SearchAnswered(rec0, resp, draws) ==
    LET rec == IF resp.class = "ok" THEN [rec0 EXCEPT !.data = <<resp.data>>] ELSE rec0
    IN  IF resp.class = "ok" /\ Len(resp.data) > 0 /\ Len(ValidOffers(resp.data)) > 0
        THEN Effect([rec EXCEPT !.pc = "done",
                                !.hotels = TransformAll(LimitResults(ValidOffers(resp.data)),
                                                        draws)],
                    NoRequest, cachedToken)
        ELSE Throw(rec, UserMessage(SearchInnerMessage(resp)), cachedToken)

Apply(c, eff) ==
    /\ call' = [call EXCEPT ![c] = eff.rec]
    /\ net' = [net EXCEPT ![c] = eff.req]
    /\ cachedToken' = eff.cache

\* ------------------------------------------------------------ actions
\* The answers of the location endpoint that the search model draws from; the
\* matching itself is checked on every candidate list in SpecResolve.
SampleBodies ==
    {<<>>,
     <<[name |-> "Paris", subType |-> "CITY", iataCode |-> "PAR"]>>,
     <<[name |-> "Paris", subType |-> "AIRPORT", iataCode |-> "XYZ"]>>}
LocationResponses ==
    [class : {"ok"}, data : SampleBodies]
        \cup [class : {"notok", "badjson", "transport"}, data : {<<>>}]

\* The answers of the availability endpoint that the search model draws from;
\* searchHotels is checked on every answer in SpecAnswer.
SampleOffers ==
    {<<>>,
     <<[hotel |-> TRUE, hotelId |-> "H1", name |-> "Ritz", rating |-> "4",
        address |-> TRUE, cityName |-> "Paris", available |-> TRUE,
        offers |-> <<SubOffer("300.00", "USD")>>]>>,
     <<[hotel |-> TRUE, hotelId |-> "H1", name |-> "Ritz", rating |-> "4",
        address |-> TRUE, cityName |-> "Paris", available |-> TRUE,
        offers |-> <<>>]>>}
SampleSearchResponses ==
    {SearchResponse("ok", 200, NoFirstError, data) : data \in SampleOffers}
        \cup {SearchResponse("errApi", 401, [status |-> 401, code |-> "1234", title |-> "INVALID DATE"], <<>>),
              SearchResponse("errApi", 404, [status |-> 404, code |-> "1234", title |-> "INVALID DATE"], <<>>)}
        \cup {SearchResponse(class, 500, NoFirstError, <<>>) :
                  class \in {"errNoErrors", "errNotJson"}}
        \cup {SearchResponse("okBadJson", 200, NoFirstError, <<>>),
              SearchResponse("transport", 0, NoFirstError, <<>>)}

\* An invocation of suggestLocations that has not started. answer is <<>>
\* until the location endpoint has answered, then <<its answer>>; tokenFailed
\* tells that getAmadeusAccessToken threw; thrown is the error that left
\* suggestLocations.
IdleSuggest ==
    [pc |-> "idle", query |-> <<>>, gtNow |-> 0, tokenFailed |-> FALSE,
     answer |-> <<>>, suggestions |-> <<>>, thrown |-> <<>>]

\* An operation on the trip store that has not started: addTrip, removeTrip
\* or updateTrip, or handlePaymentSubmit (unnamed/part_007:141-186).
\* existingTrips is what getTrips returned to it.
IdleOp ==
    [pc |-> "idle", kind |-> "none", trip |-> NoTrip, tripId |-> 0,
     paymentDetails |-> NoPayment, existingTrips |-> <<>>, error |-> <<>>]

IdleOffer ==
    [hotel |-> TRUE, hotelId |-> "H1", name |-> "Ritz", rating |-> "4",
     address |-> TRUE, cityName |-> "Paris", available |-> TRUE,
     offers |-> <<SubOffer("300.00", "USD")>>]

InitSideIdle ==
    /\ nRaw = IdleOffer
    /\ nOut = <<>>
    /\ sug = [c \in {"s1"} |-> IdleSuggest]
    /\ ecoTrips = <<>>
    /\ op = [c \in {"t1"} |-> IdleOp]

InitResolveIdle ==
    /\ rQuery = "Paris"
    /\ rResp = [class |-> "notok", data |-> <<>>]
    /\ rResult = <<>>

\* The process starts with an empty cache (booking.ts:71); the environment
\* variables are read once (booking.ts:12-13).
InitProcess ==
    /\ apiKey \in BOOLEAN
    /\ apiSecret \in BOOLEAN
    /\ now = 0
    /\ cachedToken = NoToken
    /\ issued = <<>>

\* Search calls that follow one another.
Init ==
    /\ InitProcess
    /\ call = [c \in {"s1"} |-> IdleCall]
    /\ net = [c \in {"s1"} |-> NoRequest]
    /\ InitResolveIdle
    /\ InitSideIdle

\* A caller invokes the server action searchHotels (booking.ts:299).
Search(c, criteria) ==
    /\ call[c].pc = "idle"
    /\ Apply(c, StartSearch([call[c] EXCEPT !.criteria = criteria,
                                             !.cityCode = criteria.cityCode]))
    /\ UNCHANGED <<apiKey, apiSecret, now, issued, resolveVars, sideVars>>

\* The await of line 98 (and 107) resumes.
ReceiveToken(c) ==
    /\ call[c].pc = "awaitToken"
    /\ net[c].resp # <<>>
    /\ Apply(c, TokenAnswered(call[c], net[c].resp[1]))
    /\ UNCHANGED <<apiKey, apiSecret, now, issued, resolveVars, sideVars>>

\* The await of line 156 (and 163, 168) resumes.
ReceiveLocation(c) ==
    /\ call[c].pc = "awaitLocation"
    /\ net[c].resp # <<>>
    /\ Apply(c, LocationAnswered(call[c], net[c].resp[1]))
    /\ UNCHANGED <<apiKey, apiSecret, now, issued, resolveVars, sideVars>>

\* The await of line 384 (and 390) resumes.
ReceiveSearch(c) ==
    /\ call[c].pc = "awaitSearch"
    /\ net[c].resp # <<>>
    /\ \E draws \in DrawLists(LimitResults(ValidOffers(net[c].resp[1].data))) :
          Apply(c, SearchAnswered(call[c], net[c].resp[1], draws))
    /\ UNCHANGED <<apiKey, apiSecret, now, issued, resolveVars, sideVars>>

\* The caller has its result; the invocation is over.
Return(c) ==
    /\ call[c].pc = "done"
    /\ call' = [call EXCEPT ![c] =
                   [IdleCall EXCEPT !.retry =
                       \/ Includes(call[c].tokenError, "Failed to get Amadeus token:")
                       \/ /\ call[c].retry /\ call[c].tokenError = <<>>
                          /\ call[c].nTok = 0 /\ call[c].nLoc = 0 /\ call[c].nAvail = 0]]
    /\ UNCHANGED <<apiKey, apiSecret, now, cachedToken, issued, net, resolveVars, sideVars>>

\* The token endpoint issues a token, valid for expires_in from now on.
ProviderIssuesToken(c) ==
    /\ net[c].kind = "token" /\ net[c].resp = <<>>
    /\ Len(issued) < MaxTokens
    /\ \E life \in 1..MaxLifetime :
          /\ issued' = Append(issued, [at |-> now, life |-> life])
          /\ net' = [net EXCEPT ![c].resp =
                        <<[class |-> "ok", access_token |-> Len(issued) + 1,
                           expires_in |-> life]>>]
    /\ UNCHANGED <<apiKey, apiSecret, now, cachedToken, call, resolveVars, sideVars>>

\* The token request fails.
ProviderRefusesToken(c) ==
    /\ net[c].kind = "token" /\ net[c].resp = <<>>
    /\ \E class \in TokenFailures :
          net' = [net EXCEPT ![c].resp =
                     <<[class |-> class, access_token |-> 0, expires_in |-> 0]>>]
    /\ UNCHANGED <<apiKey, apiSecret, now, cachedToken, issued, call, resolveVars, sideVars>>

ProviderAnswersLocation(c) ==
    /\ net[c].kind = "location" /\ net[c].resp = <<>>
    /\ \E resp \in LocationResponses : net' = [net EXCEPT ![c].resp = <<resp>>]
    /\ UNCHANGED <<apiKey, apiSecret, now, cachedToken, issued, call, resolveVars, sideVars>>

ProviderAnswersSearch(c) ==
    /\ net[c].kind = "search" /\ net[c].resp = <<>>
    /\ \E resp \in SampleSearchResponses : net' = [net EXCEPT ![c].resp = <<resp>>]
    /\ UNCHANGED <<apiKey, apiSecret, now, cachedToken, issued, call, resolveVars, sideVars>>

\* 60 seconds pass.
Tick ==
    /\ now < MaxTime
    /\ now' = now + 1
    /\ UNCHANGED <<apiKey, apiSecret, cachedToken, issued, call, net, resolveVars, sideVars>>

Next ==
    \/ \E c \in DOMAIN call : \E criteria \in Criteria : Search(c, criteria)
    \/ \E c \in DOMAIN call : ReceiveToken(c)
    \/ \E c \in DOMAIN call : ReceiveLocation(c)
    \/ \E c \in DOMAIN call : ReceiveSearch(c)
    \/ \E c \in DOMAIN call : Return(c)
    \/ \E c \in DOMAIN call : ProviderIssuesToken(c)
    \/ \E c \in DOMAIN call : ProviderRefusesToken(c)
    \/ \E c \in DOMAIN call : ProviderAnswersLocation(c)
    \/ \E c \in DOMAIN call : ProviderAnswersSearch(c)
    \/ Tick

Spec == Init /\ [][Next]_vars

\* getCityCode on its own (booking.ts:150-195), on every answer of the
\* location endpoint with at most MaxCandidates candidates.
CandidateLists == UNION {[1..n -> Candidates] : n \in 0..MaxCandidates}
AllLocationResponses ==
    [class : {"ok"}, data : CandidateLists]
        \cup [class : {"notok", "badjson", "transport"}, data : {<<>>}]

InitResolve ==
    /\ apiKey = TRUE /\ apiSecret = TRUE /\ now = 0
    /\ cachedToken = NoToken /\ issued = <<>>
    /\ call = [c \in {"s1"} |-> IdleCall]
    /\ net = [c \in {"s1"} |-> NoRequest]
    /\ rQuery \in Names
    /\ rResp \in AllLocationResponses
    /\ rResult = <<>>
    /\ InitSideIdle

Resolve ==
    /\ rResult = <<>>
    /\ rResult' = <<GetCityCode(rQuery, rResp)>>
    /\ UNCHANGED <<apiKey, apiSecret, now, cachedToken, issued, call, net, rQuery, rResp,
                   sideVars>>

SpecResolve == InitResolve /\ [][Resolve]_vars

\* searchHotels from the answer of its availability request
\* (booking.ts:390-488), on every answer of the availability endpoint: every
\* list of at most MaxOffers offers, and lists of valid offers around the
\* limit of line 438, the last offer another hotel than the others.
LongOffers(n) ==
    [i \in 1..n |->
        [hotel |-> TRUE, hotelId |-> IF i = n THEN "H2" ELSE "H1", name |-> "Ritz",
         rating |-> "4", address |-> TRUE, cityName |-> "Paris",
         available |-> TRUE, offers |-> <<SubOffer("300.00", "USD")>>]]
OfferLists ==
    UNION {[1..n -> RawOffers] : n \in 0..MaxOffers}
        \cup {LongOffers(n) : n \in ResultLimit..(ResultLimit + 1)}
FirstErrors(status) == [status : {0, status}, code : ApiCodes, title : ApiTitles]
AllSearchResponses ==
    {SearchResponse("ok", 200, NoFirstError, data) : data \in OfferLists}
        \cup {SearchResponse("errApi", r[1], r[2], <<>>) :
                  r \in UNION {{<<status, first>> : first \in FirstErrors(status)} :
                                 status \in HttpErrors}}
        \cup {SearchResponse(class, status, NoFirstError, <<>>) :
                  class \in {"errNoErrors", "errNotJson"}, status \in HttpErrors}
        \cup {SearchResponse("okBadJson", 200, NoFirstError, <<>>),
              SearchResponse("transport", 0, NoFirstError, <<>>)}

\* The invocation has sent its availability request with the cached token,
\* and the answer is there.
InitAnswer ==
    /\ apiKey = TRUE /\ apiSecret = TRUE /\ now = 0
    /\ issued = <<[at |-> 0, life |-> MaxLifetime]>>
    /\ cachedToken = [token |-> 1, expiry |-> ExpiryTime(0, MaxLifetime)]
    /\ call = [c \in {"s1"} |->
                  [IdleCall EXCEPT !.pc = "awaitSearch", !.cityCode = "PAR", !.nAvail = 1,
                                   !.criteria = [city |-> "Paris", cityCode |-> "PAR",
                                                 checkInDate |-> 1, checkOutDate |-> 2,
                                                 numberOfGuests |-> 1]]]
    /\ \E resp \in AllSearchResponses :
          net = [c \in {"s1"} |-> [kind |-> "search", bearer |-> 1, resp |-> <<resp>>]]
    /\ InitResolveIdle
    /\ InitSideIdle

NextAnswer == \E c \in DOMAIN call : ReceiveSearch(c)

SpecAnswer == InitAnswer /\ [][NextAnswer]_vars

\* The search calls under the scheduling of the runtime: a handler whose
\* await has its answer resumes, and a caller takes its result. Nothing makes
\* the provider answer: no request of the code carries a timeout
\* (booking.ts:98-105, 156-160, 384-388).
Resumes ==
    \E c \in DOMAIN call :
        ReceiveToken(c) \/ ReceiveLocation(c) \/ ReceiveSearch(c) \/ Return(c)

SpecLive == Init /\ [][Next]_vars /\ WF_vars(Resumes)

\* Two invocations of searchHotels at once, each with criteria that pass the
\* validation, with or without a location code. The clock stands still: a
\* token of one unit of lifetime is cached expired (its expiry is the `now`
\* of its request), a longer one is cached valid.
RaceCriteria ==
    {cr \in Criteria :
        /\ cr.city = "Paris" /\ cr.checkInDate = 1 /\ cr.checkOutDate = 2
        /\ cr.numberOfGuests = 1}

InitRace ==
    /\ InitProcess
    /\ apiKey /\ apiSecret
    /\ call = [c \in {"s1", "s2"} |-> IdleCall]
    /\ net = [c \in {"s1", "s2"} |-> NoRequest]
    /\ InitResolveIdle
    /\ InitSideIdle

NextRace ==
    \/ \E c \in DOMAIN call : \E criteria \in RaceCriteria : Search(c, criteria)
    \/ \E c \in DOMAIN call : ReceiveToken(c)
    \/ \E c \in DOMAIN call : ReceiveLocation(c)
    \/ \E c \in DOMAIN call : ReceiveSearch(c)
    \/ \E c \in DOMAIN call : Return(c)
    \/ \E c \in DOMAIN call : ProviderIssuesToken(c)
    \/ \E c \in DOMAIN call : ProviderRefusesToken(c)
    \/ \E c \in DOMAIN call : ProviderAnswersLocation(c)
    \/ \E c \in DOMAIN call : ProviderAnswersSearch(c)

SpecRace == InitRace /\ [][NextRace]_vars

\* ------------------------------------- the normalizer on its own
searchVars == <<apiKey, apiSecret, now, cachedToken, issued, call, net>>

\* transformAmadeusHotelOffer on its own (booking.ts:24-67), on offers with
\* or without a hotel record, an address, sub-offers and price blocks, next
\* to a search whose availability answer is one valid offer priced "300.00"
\* USD.
FullOffers ==
    LET subOffers ==
            {NoSubOffer, SubOffer("", ""), SubOffer("300.00", "USD"),
             SubOffer("89.00", "EUR"), SubOffer("300.00", "")}
        subOfferLists == UNION {[1..n -> subOffers] : n \in 0..2}
    IN  [hotel : {TRUE}, hotelId : {"H1", ""}, name : {"Ritz", ""}, rating : RatingTexts,
         address : {TRUE}, cityName : {"Paris", ""}, available : {TRUE},
         offers : subOfferLists]
            \cup [hotel : {TRUE}, hotelId : {"H1", ""}, name : {"Ritz", ""},
                  rating : RatingTexts, address : {FALSE}, cityName : {""},
                  available : {TRUE}, offers : subOfferLists]
            \cup [hotel : {FALSE}, hotelId : {""}, name : {""}, rating : {""},
                  address : {FALSE}, cityName : {""}, available : {TRUE},
                  offers : subOfferLists]

InitNormalize ==
    /\ apiKey = TRUE /\ apiSecret = TRUE /\ now = 0
    /\ issued = <<[at |-> 0, life |-> MaxLifetime]>>
    /\ cachedToken = [token |-> 1, expiry |-> ExpiryTime(0, MaxLifetime)]
    /\ call = [c \in {"s1"} |->
                  [IdleCall EXCEPT !.pc = "awaitSearch", !.cityCode = "PAR", !.nAvail = 1,
                                   !.criteria = [city |-> "Paris", cityCode |-> "PAR",
                                                 checkInDate |-> 1, checkOutDate |-> 2,
                                                 numberOfGuests |-> 1]]]
    /\ net = [c \in {"s1"} |->
                 [kind |-> "search", bearer |-> 1,
                  resp |-> <<SearchResponse("ok", 200, NoFirstError, <<IdleOffer>>)>>]]
    /\ InitResolveIdle
    /\ nRaw \in FullOffers
    /\ nOut = <<>>
    /\ sug = [c \in {"s1"} |-> IdleSuggest]
    /\ ecoTrips = <<>>
    /\ op = [c \in {"t1"} |-> IdleOp]

\* One run of transformAmadeusHotelOffer, with the draws of its calls of
\* Math.random.
Normalize ==
    /\ nOut = <<>>
    /\ \E draw \in DrawsOf(nRaw) : nOut' = <<TransformAmadeusHotelOffer(nRaw, draw)>>
    /\ UNCHANGED <<searchVars, resolveVars, nRaw, sug, ecoTrips, op>>

NextNormalize ==
    \/ Normalize
    \/ \E c \in DOMAIN call : ReceiveSearch(c)

SpecNormalize == InitNormalize /\ [][NextNormalize]_vars

\* ------------------------------------------------- suggestLocations
SuggestQueries ==
    {<<>>, <<"P">>, <<" ", "P", " ">>, <<"P", "a">>, <<" ", "P", "a">>, <<" ", " ", " ">>}
SuggestResponses ==
    LET candidates == {loc \in Candidates : loc.name \in {"Paris", NoName}}
    IN  [class : {"ok"}, data : UNION {[1..n -> candidates] : n \in 0..2}]
            \cup [class : {"notok", "badjson", "transport"}, data : {<<>>}]

\* booking.ts:203-227: suggestLocations from its call to its first
\* suspension; getAmadeusAccessToken (78-105) returns the cached token or
\* sends its request.
Suggest(c, query) ==
    /\ sug[c].pc = "idle"
    /\ LET rec == [IdleSuggest EXCEPT !.query = query]
       IN  IF QueryTooShort(query) \/ CredentialsMissing(apiKey, apiSecret)
           THEN /\ sug' = [sug EXCEPT ![c] = [rec EXCEPT !.pc = "done"]]
                /\ net' = net
           ELSE IF CacheValid(cachedToken, now)
           THEN /\ sug' = [sug EXCEPT ![c] = [rec EXCEPT !.pc = "awaitSuggest"]]
                /\ net' = [net EXCEPT ![c] = Request("suggest", cachedToken.token)]
           ELSE /\ sug' = [sug EXCEPT ![c] = [rec EXCEPT !.pc = "awaitToken", !.gtNow = now]]
                /\ net' = [net EXCEPT ![c] = Request("token", 0)]
    /\ UNCHANGED <<apiKey, apiSecret, now, cachedToken, issued, call, resolveVars,
                   nRaw, nOut, ecoTrips, op>>

\* booking.ts:107-140 and 220-245: the token request is answered; on a token
\* the suggestion request goes out, on a failure suggestLocations returns [].
SuggestReceivesToken(c) ==
    /\ sug[c].pc = "awaitToken"
    /\ net[c].resp # <<>>
    /\ LET resp == net[c].resp[1]
       IN  IF resp.class = "ok"
           THEN /\ cachedToken' = [token |-> resp.access_token,
                                   expiry |-> ExpiryTime(sug[c].gtNow, resp.expires_in)]
                /\ sug' = [sug EXCEPT ![c].pc = "awaitSuggest", ![c].gtNow = 0]
                /\ net' = [net EXCEPT ![c] = Request("suggest", resp.access_token)]
           ELSE /\ cachedToken' = CacheAfterFailure(cachedToken)
                /\ sug' = [sug EXCEPT ![c].pc = "done", ![c].gtNow = 0,
                                      ![c].tokenFailed = TRUE]
                /\ net' = [net EXCEPT ![c] = NoRequest]
    /\ UNCHANGED <<apiKey, apiSecret, now, issued, call, resolveVars,
                   nRaw, nOut, ecoTrips, op>>

\* booking.ts:241-289: the suggestion request is answered.
SuggestReceivesLocations(c) ==
    /\ sug[c].pc = "awaitSuggest"
    /\ net[c].resp # <<>>
    /\ sug' = [sug EXCEPT ![c].pc = "done", ![c].answer = net[c].resp,
                          ![c].suggestions = SuggestionsOf(net[c].resp[1])]
    /\ net' = [net EXCEPT ![c] = NoRequest]
    /\ UNCHANGED <<apiKey, apiSecret, now, cachedToken, issued, call, resolveVars,
                   nRaw, nOut, ecoTrips, op>>

\* The caller has its suggestions.
SuggestReturns(c) ==
    /\ sug[c].pc = "done"
    /\ sug' = [sug EXCEPT ![c] = IdleSuggest]
    /\ UNCHANGED <<searchVars, resolveVars, nRaw, nOut, ecoTrips, op>>

ProviderAnswersSuggest(c) ==
    /\ net[c].kind = "suggest" /\ net[c].resp = <<>>
    /\ \E resp \in SuggestResponses : net' = [net EXCEPT ![c].resp = <<resp>>]
    /\ UNCHANGED <<apiKey, apiSecret, now, cachedToken, issued, call, resolveVars,
                   sideVars>>

\* The invocations of suggestLocations that follow one another, the clock
\* standing still.
NextSuggest ==
    \/ \E c \in DOMAIN sug : \E query \in SuggestQueries : Suggest(c, query)
    \/ \E c \in DOMAIN sug : SuggestReceivesToken(c)
    \/ \E c \in DOMAIN sug : SuggestReceivesLocations(c)
    \/ \E c \in DOMAIN sug : SuggestReturns(c)
    \/ \E c \in DOMAIN sug : ProviderIssuesToken(c)
    \/ \E c \in DOMAIN sug : ProviderRefusesToken(c)
    \/ \E c \in DOMAIN sug : ProviderAnswersSuggest(c)

SpecSuggest == Init /\ [][NextSuggest]_vars

\* ------------------------------------------------- the trip store
\* The trips that callers hand to addTrip and updateTrip: a stay of one night
\* or, check-out on the day of check-in, of none.
TripIds == {1, 2}
TripInputs ==
    [id : TripIds, hotel : {TransformAmadeusHotelOffer(IdleOffer, NoDraw)},
     checkInDate : {1, 2}, checkOutDate : {2}, numberOfGuests : {2},
     totalPrice : {300}, status : {"upcoming", "cancelled"}]

\* addTrip is called (booking.ts:588-594): getTrips reads the item at once,
\* and addTrip goes on when its await of getTrips resumes.
AddTrip(c, trip) ==
    /\ op[c].pc = "idle"
    /\ op' = [op EXCEPT ![c] = [IdleOp EXCEPT !.pc = "read", !.kind = "add",
                                              !.trip = trip, !.tripId = trip.id,
                                              !.existingTrips = GetTrips(ecoTrips)]]
    /\ UNCHANGED <<searchVars, resolveVars, nRaw, nOut, sug, ecoTrips>>

\* removeTrip is called (booking.ts:612-618).
RemoveTrip(c, tripId) ==
    /\ op[c].pc = "idle"
    /\ op' = [op EXCEPT ![c] = [IdleOp EXCEPT !.pc = "read", !.kind = "remove",
                                              !.tripId = tripId,
                                              !.existingTrips = GetTrips(ecoTrips)]]
    /\ UNCHANGED <<searchVars, resolveVars, nRaw, nOut, sug, ecoTrips>>

\* updateTrip is called (booking.ts:635-641).
UpdateTrip(c, updatedTrip) ==
    /\ op[c].pc = "idle"
    /\ op' = [op EXCEPT ![c] = [IdleOp EXCEPT !.pc = "read", !.kind = "update",
                                              !.trip = updatedTrip,
                                              !.tripId = updatedTrip.id,
                                              !.existingTrips = GetTrips(ecoTrips)]]
    /\ UNCHANGED <<searchVars, resolveVars, nRaw, nOut, sug, ecoTrips>>

\* handlePaymentSubmit (unnamed/part_007:141-186): simulateBookHotel, and on
\* its success addTrip up to its await of getTrips. The timer of
\* booking.ts:512 touches nothing of the store.
HandlePaymentSubmit(c, hotel, checkInDate, checkOutDate, numberOfGuests, paymentDetails, id) ==
    /\ op[c].pc = "idle"
    /\ LET booked == SimulateBookHotel(hotel, checkInDate, checkOutDate, numberOfGuests,
                                       paymentDetails, id)
       IN  IF booked.error # <<>>
           THEN op' = [op EXCEPT ![c] = [IdleOp EXCEPT !.pc = "done", !.kind = "book",
                                                       !.paymentDetails = paymentDetails,
                                                       !.error = booked.error]]
           ELSE op' = [op EXCEPT ![c] = [IdleOp EXCEPT !.pc = "read", !.kind = "book",
                                                       !.paymentDetails = paymentDetails,
                                                       !.trip = booked.trip,
                                                       !.tripId = booked.trip.id,
                                                       !.existingTrips = GetTrips(ecoTrips)]]
    /\ UNCHANGED <<searchVars, resolveVars, nRaw, nOut, sug, ecoTrips>>

\* The await of booking.ts:594 resumes.
AddTripResumes(c) ==
    /\ op[c].pc = "read" /\ op[c].kind \in {"add", "book"}
    /\ ecoTrips' = AddTripWrite(op[c].existingTrips, op[c].trip, ecoTrips)
    /\ op' = [op EXCEPT ![c].pc = "done"]
    /\ UNCHANGED <<searchVars, resolveVars, nRaw, nOut, sug>>

\* The await of booking.ts:618 resumes.
RemoveTripResumes(c) ==
    /\ op[c].pc = "read" /\ op[c].kind = "remove"
    /\ ecoTrips' = RemoveTripWrite(op[c].existingTrips, op[c].tripId, ecoTrips)
    /\ op' = [op EXCEPT ![c].pc = "done"]
    /\ UNCHANGED <<searchVars, resolveVars, nRaw, nOut, sug>>

\* The await of booking.ts:641 resumes.
UpdateTripResumes(c) ==
    /\ op[c].pc = "read" /\ op[c].kind = "update"
    /\ ecoTrips' = UpdateTripWrite(op[c].existingTrips, op[c].trip, ecoTrips)
    /\ op' = [op EXCEPT ![c].pc = "done"]
    /\ UNCHANGED <<searchVars, resolveVars, nRaw, nOut, sug>>

\* The operation is over.
OpReturns(c) ==
    /\ op[c].pc = "done"
    /\ op' = [op EXCEPT ![c] = IdleOp]
    /\ UNCHANGED <<searchVars, resolveVars, nRaw, nOut, sug, ecoTrips>>

\* The browser with an empty store; the search client of the server is at
\* rest.
InitStore ==
    /\ InitProcess
    /\ apiKey /\ apiSecret
    /\ call = [c \in {"s1"} |-> IdleCall]
    /\ net = [c \in {"s1"} |-> NoRequest]
    /\ InitResolveIdle
    /\ InitSideIdle

\* Operations on the store that follow one another.
NextTrips ==
    \/ \E c \in DOMAIN op : \E trip \in TripInputs : AddTrip(c, trip)
    \/ \E c \in DOMAIN op : \E tripId \in TripIds : RemoveTrip(c, tripId)
    \/ \E c \in DOMAIN op : \E trip \in TripInputs : UpdateTrip(c, trip)
    \/ \E c \in DOMAIN op : AddTripResumes(c)
    \/ \E c \in DOMAIN op : RemoveTripResumes(c)
    \/ \E c \in DOMAIN op : UpdateTripResumes(c)
    \/ \E c \in DOMAIN op : OpReturns(c)

SpecTrips == InitStore /\ [][NextTrips]_vars

\* Two operations on the store at once, on trips that getTrips reads back.
ReadableTripInputs == {trip \in TripInputs : trip.checkInDate = 1}

InitTripsRace ==
    /\ InitProcess
    /\ apiKey /\ apiSecret
    /\ call = [c \in {"s1"} |-> IdleCall]
    /\ net = [c \in {"s1"} |-> NoRequest]
    /\ InitResolveIdle
    /\ nRaw = IdleOffer
    /\ nOut = <<>>
    /\ sug = [c \in {"s1"} |-> IdleSuggest]
    /\ ecoTrips = <<>>
    /\ op = [c \in {"t1", "t2"} |-> IdleOp]

NextTripsRace ==
    \/ \E c \in DOMAIN op : \E trip \in ReadableTripInputs : AddTrip(c, trip)
    \/ \E c \in DOMAIN op : \E tripId \in TripIds : RemoveTrip(c, tripId)
    \/ \E c \in DOMAIN op : \E trip \in ReadableTripInputs : UpdateTrip(c, trip)
    \/ \E c \in DOMAIN op : AddTripResumes(c)
    \/ \E c \in DOMAIN op : RemoveTripResumes(c)
    \/ \E c \in DOMAIN op : UpdateTripResumes(c)
    \/ \E c \in DOMAIN op : OpReturns(c)

SpecTripsRace == InitTripsRace /\ [][NextTripsRace]_vars

\* Bookings that follow one another: the hotels of a search, stays of one and
\* of two nights, one or two guests, and payment details that differ from
\* well-formed ones in one field.
BookHotels ==
    {TransformAmadeusHotelOffer(IdleOffer, NoDraw),
     TransformAmadeusHotelOffer([IdleOffer EXCEPT !.offers = <<SubOffer("89.00", "EUR")>>],
                                NoDraw)}
PaymentInputs ==
    LET cardNumbers ==
            {Text(16, "4"), Text(15, "4"), Text(17, "4"),
             [Text(16, "4") EXCEPT ![16] = "x"], <<>>}
        expiryDates ==
            {<<"1", "2", "/", "2", "5">>, <<"0", "9", "/", "3", "0">>,
             <<"1", "3", "/", "2", "5">>, <<"0", "0", "/", "2", "5">>,
             <<"1", "2", "/", "2">>, <<"1", "2", "-", "2", "5">>,
             <<"1", "2", "/", "2", "5", "1">>, <<>>}
        cvcs ==
            {<<"1", "2", "3">>, <<"1", "2", "3", "4">>, <<"1", "2">>,
             <<"1", "2", "3", "4", "5">>, <<"1", "2", "a">>, <<>>}
        paypalEmails ==
            {<<"a", "@", "b", ".", "c">>, <<"a", ".", "b", "@", "c", ".", "d", ".", "e">>,
             <<"a", "@", "b">>, <<"a", " ", "b", "@", "c", ".", "d">>,
             <<"a", "@", "@", "b", ".", "c">>, <<"@", "b", ".", "c">>,
             <<"a", "@", "b", ".">>, <<"a", "@", ".", "c">>, <<>>}
    IN  [method : {"creditCard", "debitCard"}, cardNumber : cardNumbers,
         expiryDate : {<<"1", "2", "/", "2", "5">>}, cvc : {<<"1", "2", "3">>},
         paypalEmail : {<<>>}]
            \cup [method : {"creditCard", "debitCard"}, cardNumber : {Text(16, "4")},
                  expiryDate : expiryDates, cvc : {<<"1", "2", "3">>}, paypalEmail : {<<>>}]
            \cup [method : {"creditCard", "debitCard"}, cardNumber : {Text(16, "4")},
                  expiryDate : {<<"1", "2", "/", "2", "5">>}, cvc : cvcs,
                  paypalEmail : {<<>>}]
            \cup [method : {"paypal"}, cardNumber : {<<>>, Text(16, "4")},
                  expiryDate : {<<>>}, cvc : {<<>>}, paypalEmail : paypalEmails]
            \cup [method : {"bankTransfer"}, cardNumber : {Text(16, "4")},
                  expiryDate : {<<"1", "2", "/", "2", "5">>}, cvc : {<<"1", "2", "3">>},
                  paypalEmail : {<<"a", "@", "b", ".", "c">>}]

NextBook ==
    \/ \E c \in DOMAIN op :
          \E hotel \in BookHotels : \E checkOutDate \in {2, 3} :
              \E numberOfGuests \in {1, 2} : \E paymentDetails \in PaymentInputs :
                  \E id \in TripIds :
                      HandlePaymentSubmit(c, hotel, 1, checkOutDate, numberOfGuests,
                                          paymentDetails, id)
    \/ \E c \in DOMAIN op : AddTripResumes(c)
    \/ \E c \in DOMAIN op : OpReturns(c)

SpecBook == InitStore /\ [][NextBook]_vars

\* ------------------------------------------------------------- claims
\* The taxonomy kind of an error of searchHotels, read from its message as
\* the callers read it (unnamed/part_007:103 for the configuration error).
IsValidationError(msg) ==
    Includes(msg, "Validation Error:") \/ Includes(msg, "Missing required search criteria:")
IsConfigError(msg) == Includes(msg, "Server configuration error:")
IsLocationNotFound(msg) == Includes(msg, "Could not determine location code")

\* This step runs invocation c from a point where it may call
\* getAmadeusAccessToken: its start (booking.ts:319 or 357) or the return of
\* getCityCode (booking.ts:357).
MayCallGetToken(c) ==
    call[c].pc \in {"idle", "awaitLocation"} /\ call'[c] # call[c]

\* This step of invocation c sends a request that carries a bearer token.
SendsBearer(c) ==
    net'[c].kind \in {"location", "search"} /\ net'[c].kind # net[c].kind

\* This step of invocation c sends a token request.
SendsTokenRequest(c) == net'[c].kind = "token" /\ net[c].kind # "token"

\* C1: whenever getAmadeusAccessToken is called while the cache holds a token
\* whose expiry is later than the current time, it issues no token request and
\* the token it returns (the bearer of the caller's next request) is the
\* cached one; the cache is left as it is.
C1_TokenReuse ==
    [][\A c \in DOMAIN call :
          (MayCallGetToken(c) /\ cachedToken # NoToken /\ cachedToken.expiry > now)
          => /\ ~SendsTokenRequest(c)
             /\ call'[c].nTok = call[c].nTok
             /\ SendsBearer(c) => net'[c].bearer = cachedToken.token
             /\ cachedToken' = cachedToken]_vars

\* C1's case: an invocation that issued no token request has sent a request
\* with the token of the still valid cache.
C1_Witness ==
    \E c \in DOMAIN call :
        /\ call[c].pc \in {"awaitLocation", "awaitSearch"}
        /\ call[c].nTok = 0
        /\ cachedToken # NoToken /\ cachedToken.expiry > now
        /\ net[c].bearer = cachedToken.token

\* The answer {access_token, expires_in} of the token endpoint reaches the
\* getAmadeusAccessToken that invocation c awaits.
TokenArrives(c) ==
    /\ call[c].pc = "awaitToken"
    /\ call'[c] # call[c]
    /\ net[c].resp # <<>>
    /\ net[c].resp[1].class = "ok"

\* C2: getAmadeusAccessToken called with an empty or expired cache and
\* answered 2xx with {access_token, expires_in}: the one request it sent is its
\* only token request, and on the answer the cache holds that access_token
\* with expiry = now + expires_in - 60 s, now being the time of the call; the
\* token returned is that access_token.
C2_TokenRefresh ==
    [][\A c \in DOMAIN call :
          TokenArrives(c)
          => /\ ~(cachedToken # NoToken /\ cachedToken.expiry > call[c].gtNow)
             /\ call[c].nTok >= 1
             /\ call'[c].nTok = call[c].nTok
             /\ net'[c].kind # "token"
             /\ cachedToken' =
                   [token |-> net[c].resp[1].access_token,
                    expiry |-> call[c].gtNow + net[c].resp[1].expires_in - 1]
             /\ SendsBearer(c) /\ net'[c].bearer = net[c].resp[1].access_token]_vars

\* C2's case: an expired token was cached, and a second one has replaced it
\* after one token request of the invocation.
C2_Witness ==
    \E c \in DOMAIN call :
        /\ Len(issued) = 2
        /\ cachedToken.token = 2
        /\ cachedToken.expiry = now + issued[2].life - 1
        /\ call[c].pc = "awaitLocation" /\ call[c].nTok = 1
        /\ net[c].bearer = 2

\* C3: whenever a bearer token is attached to a request of searchHotels (the
\* location lookup or the availability query), the current time is earlier
\* than the time the provider issued that token plus its lifetime.
C3_TokenNeverUsedPastExpiry ==
    [][\A c \in DOMAIN call :
          SendsBearer(c)
          => now < issued[net'[c].bearer].at + issued[net'[c].bearer].life]_vars

\* C4: while one token request is in flight, no second one is.
C4_SingleFlight ==
    Cardinality({c \in DOMAIN call : net[c].kind = "token"}) <= 1

\* Spec 4.3, Validate: destination non-empty, both dates present, checkOut
\* after checkIn, at least one guest.
CriteriaValid(cr) ==
    /\ cr.city # ""
    /\ cr.checkInDate # NoDate /\ cr.checkOutDate # NoDate
    /\ cr.checkOutDate > cr.checkInDate
    /\ cr.numberOfGuests >= 1

\* C5, in the case it names (the credentials configured, a destination and
\* no location code in the criteria): a Search whose criteria violate the
\* validation issues no request and ends with a ValidationError.
C5_InvalidCriteriaNoNetwork ==
    \A c \in DOMAIN call :
        (/\ apiKey /\ apiSecret
         /\ call[c].pc # "idle"
         /\ call[c].criteria.city # "" /\ call[c].criteria.cityCode = NoCode
         /\ ~CriteriaValid(call[c].criteria))
        => /\ call[c].nTok = 0 /\ call[c].nLoc = 0 /\ call[c].nAvail = 0
           /\ call[c].pc = "done"
           /\ IsValidationError(call[c].error)

\* C6: with every other field valid (and the credentials configured), a
\* Search with checkIn = checkOut ends with a ValidationError, and a Search
\* with checkOut one day after checkIn does not.
C6_ValidationBoundary ==
    \A c \in DOMAIN call :
        (/\ apiKey /\ apiSecret
         /\ call[c].pc = "done"
         /\ call[c].criteria.city # ""
         /\ call[c].criteria.checkInDate # NoDate
         /\ call[c].criteria.checkOutDate # NoDate
         /\ call[c].criteria.numberOfGuests >= 1)
        => /\ (call[c].criteria.checkOutDate = call[c].criteria.checkInDate)
                  => IsValidationError(call[c].error)
           /\ (call[c].criteria.checkOutDate = call[c].criteria.checkInDate + 1)
                  => ~IsValidationError(call[c].error)

\* C7: with the API key or the API secret absent, no Search ever issues a
\* request, and a Search with valid criteria ends with a ConfigError.
C7_NoCredentialsNoNetwork ==
    (~apiKey \/ ~apiSecret)
    => \A c \in DOMAIN call :
          /\ net[c] = NoRequest
          /\ call[c].nTok = 0 /\ call[c].nLoc = 0 /\ call[c].nAvail = 0
          /\ call[c].pc \in {"idle", "done"}
          /\ (call[c].pc = "done" /\ CriteriaValid(call[c].criteria))
                => IsConfigError(call[c].error)

\* C7's case: the secret alone is absent, and a Search with valid criteria
\* and no location code has ended with a ConfigError.
C7_Witness ==
    \E c \in DOMAIN call :
        /\ apiKey /\ ~apiSecret
        /\ call[c].pc = "done"
        /\ CriteriaValid(call[c].criteria)
        /\ call[c].criteria.cityCode = NoCode
        /\ IsConfigError(call[c].error)

\* C8: a Search without a location code whose lookup has returned null has
\* ended with a LocationNotFoundError and has issued no availability request.
C8_LocationNotFoundIsFatal ==
    \A c \in DOMAIN call :
        (call[c].nLoc = 1 /\ call[c].pc # "awaitLocation" /\ call[c].cityCode = NoCode)
        => /\ call[c].pc = "done"
           /\ IsLocationNotFound(call[c].error)
           /\ call[c].nAvail = 0
           /\ net[c] = NoRequest

\* C8's case: the lookup was made, found no code, and the Search is over.
C8_Witness ==
    \E c \in DOMAIN call :
        /\ call[c].criteria.cityCode = NoCode
        /\ call[c].nLoc = 1 /\ call[c].cityCode = NoCode
        /\ call[c].pc = "done"
        /\ IsLocationNotFound(call[c].error)

\* Case-insensitive equality of two names, by their lower-case forms.
Lower(s) == IF s \in {"Paris", "PARIS"} THEN "paris" ELSE IF s = "Lyon" THEN "lyon" ELSE s
NamedCities(data, query) ==
    {i \in 1..Len(data) :
        /\ data[i].subType = "CITY" /\ data[i].iataCode # NoCode
        /\ data[i].name # NoName /\ Lower(data[i].name) = Lower(query)}
CodedCities(data) ==
    {i \in 1..Len(data) : data[i].subType = "CITY" /\ data[i].iataCode # NoCode}
Coded(data) == {i \in 1..Len(data) : data[i].iataCode # NoCode}
Least(S) == CHOOSE i \in S : \A j \in S : i <= j

\* C9: on a candidate list, getCityCode returns the code of the first CITY
\* with a code whose name is the query up to case, and when there is none the
\* code of the first CITY with a code.
C9_CityMatchOrder ==
    (rResult # <<>> /\ rResp.class = "ok")
    => /\ NamedCities(rResp.data, rQuery) # {}
            => rResult[1] = rResp.data[Least(NamedCities(rResp.data, rQuery))].iataCode
       /\ (NamedCities(rResp.data, rQuery) = {} /\ CodedCities(rResp.data) # {})
            => rResult[1] = rResp.data[Least(CodedCities(rResp.data))].iataCode

\* C9's case: an AIRPORT named as the query comes before the CITY, and the
\* CITY's code is returned.
C9_Witness ==
    /\ rQuery = "Paris"
    /\ rResp = [class |-> "ok",
                data |-> <<[name |-> "Paris", subType |-> "AIRPORT", iataCode |-> "XYZ"],
                           [name |-> "PARIS", subType |-> "CITY", iataCode |-> "PAR"]>>]
    /\ rResult = <<"PAR">>

\* C10 as claimed: with no CITY that has a code but some candidate that has
\* one, getCityCode returns the code of the first candidate with a code.
C10_AnyKindFallback ==
    (/\ rResult # <<>> /\ rResp.class = "ok"
     /\ CodedCities(rResp.data) = {} /\ Coded(rResp.data) # {})
    => rResult[1] = rResp.data[Least(Coded(rResp.data))].iataCode

\* C10 as amended: with no CITY that has a code, getCityCode returns null,
\* whatever codes the candidates of other kinds have.
C10_NoCityIsNull ==
    (rResult # <<>> /\ rResp.class = "ok" /\ CodedCities(rResp.data) = {})
    => rResult[1] = NoCode

\* C10's case: the only candidate is an AIRPORT with a code, and null is
\* returned.
C10_Witness ==
    /\ rResp = [class |-> "ok",
                data |-> <<[name |-> "Paris", subType |-> "AIRPORT", iataCode |-> "XYZ"]>>]
    /\ rResult = <<NoCode>>

\* C11: getCityCode returns a code or null and never an error; on a transport
\* failure, a non-2xx answer, a body that is not JSON and an empty candidate
\* list it returns null.
C11_ResolveNeverRaises ==
    rResult # <<>>
    => /\ rResult[1] \in Codes \cup {NoCode}
       /\ (rResp.class # "ok" \/ rResp.data = <<>>) => rResult[1] = NoCode

\* C11's case: the location request failed in transport and null was
\* returned.
C11_Witness == rResp.class = "transport" /\ rResult = <<NoCode>>

\* C12, for criteria that pass the validation: within one Search
\* getAmadeusAccessToken is called at most once, and before the lookup and the
\* availability request; the lookup is made only without a location code, at
\* most once, and before the availability request, which is sent at most
\* once.
C12_StepOrder ==
    \A c \in DOMAIN call :
        CriteriaValid(call[c].criteria)
        => /\ call[c].nGet <= 1
           /\ call[c].nLoc <= 1 /\ call[c].nAvail <= 1
           /\ call[c].nLoc > 0 => call[c].criteria.cityCode = NoCode
           /\ (call[c].nLoc > 0 \/ call[c].nAvail > 0) => call[c].nGet > 0
           /\ call[c].nAvail > 0 => call[c].cityCode # NoCode

\* A raw offer with a hotel record, a hotel id, a hotel name and a priced
\* first sub-offer.
HasIdentityAndPrice(offer) ==
    /\ offer.hotel /\ offer.hotelId # "" /\ offer.name # ""
    /\ Len(offer.offers) > 0 /\ offer.offers[1].price /\ offer.offers[1].total # ""

\* C13: every Hotel that searchHotels returns is the normalized form of a raw
\* offer of the answer that has a hotel record, a hotel id, a hotel name and
\* a priced first sub-offer.
C13_NoHotelFromInvalidOffer ==
    \A c \in DOMAIN call :
        call[c].hotels # <<>>
        => /\ call[c].data # <<>>
           /\ \A k \in 1..Len(call[c].hotels) :
                 \E i \in 1..Len(call[c].data[1]) :
                     /\ HasIdentityAndPrice(call[c].data[1][i])
                     /\ \E draw \in DrawsOf(call[c].data[1][i]) :
                           call[c].hotels[k]
                               = TransformAmadeusHotelOffer(call[c].data[1][i], draw)

\* C13's case: of two raw offers the first lacks its hotel name, and the one
\* Hotel returned is the second.
C13_Witness ==
    \E c \in DOMAIN call :
        /\ call[c].pc = "done" /\ call[c].data # <<>>
        /\ Len(call[c].data[1]) = 2
        /\ call[c].data[1][1].hotel /\ call[c].data[1][1].name = ""
        /\ call[c].data[1][1].available /\ call[c].data[1][1].offers # <<>>
        /\ Len(call[c].hotels) = 1
        /\ call[c].hotels[1].id = "H2" /\ call[c].hotels[1].name = "Ritz"
        /\ call[c].hotels[1].pricePerNight = 300

\* The offers of an answer, by their positions: those with identity and
\* price, and those that are flagged available as well.
Priced(data) == {i \in 1..Len(data) : HasIdentityAndPrice(data[i])}
Bookable(data) == {i \in Priced(data) : data[i].available}
Rank(S, i) == Cardinality({j \in S : j <= i})

\* C14 as claimed: a Search that returns Hotels returns one for each raw offer
\* with a hotel id, a hotel name and a priced sub-offer, in provider order.
C14_OneHotelPerPricedOffer ==
    \A c \in DOMAIN call :
        (call[c].pc = "done" /\ call[c].error = <<>> /\ call[c].data # <<>>)
        => /\ Len(call[c].hotels) = Cardinality(Priced(call[c].data[1]))
           /\ \A i \in Priced(call[c].data[1]) :
                 \E draw \in DrawsOf(call[c].data[1][i]) :
                     call[c].hotels[Rank(Priced(call[c].data[1]), i)]
                         = TransformAmadeusHotelOffer(call[c].data[1][i], draw)

\* C14 as amended: the Hotels of a parsed 2xx answer are the normalized forms
\* of the first 20 raw offers that have a hotel id, a hotel name, a true
\* availability flag and a priced first sub-offer, in provider order.
C14_OneHotelPerBookableOffer ==
    \A c \in DOMAIN call :
        (call[c].pc = "done" /\ call[c].data # <<>>)
        => /\ Len(call[c].hotels) =
                 IF Cardinality(Bookable(call[c].data[1])) < 20
                 THEN Cardinality(Bookable(call[c].data[1])) ELSE 20
           /\ \A i \in Bookable(call[c].data[1]) :
                 Rank(Bookable(call[c].data[1]), i) <= 20
                 => \E draw \in DrawsOf(call[c].data[1][i]) :
                        call[c].hotels[Rank(Bookable(call[c].data[1]), i)]
                            = TransformAmadeusHotelOffer(call[c].data[1][i], draw)

\* C14's case: 21 bookable offers were answered and the 20 first are
\* returned.
C14_Witness ==
    \E c \in DOMAIN call :
        /\ call[c].pc = "done" /\ call[c].data # <<>>
        /\ Len(call[c].data[1]) = 21
        /\ Len(call[c].hotels) = 20
        /\ call[c].hotels[20].id = "H1"

\* C15: a Search whose availability answer was 2xx with offers of which the
\* filter kept none ends without an error, with an empty result.
C15_ZeroResultsIsNotAnError ==
    \A c \in DOMAIN call :
        (/\ call[c].pc = "done" /\ call[c].data # <<>>
         /\ Len(call[c].data[1]) > 0 /\ call[c].hotels = <<>>)
        => call[c].error = <<>>

\* The taxonomy kinds that the messages of searchHotels tell apart.
IsAuthError(msg) ==
    \/ Includes(msg, "Failed to get Amadeus token:")
    \/ Includes(msg, "Authentication with the hotel service failed.")
IsSearchError(msg) ==
    \/ Includes(msg, "Search failed:") \/ Includes(msg, "No hotels found")
    \/ Includes(msg, "request invalid") \/ Includes(msg, "service temporary error")
    \/ Includes(msg, "service communication error")
    \/ Includes(msg, "none met the availability")
IsNetworkError(msg) == Includes(msg, "Network error:")

\* C16: every error of searchHotels is of one of the six kinds.
C16_EveryErrorClassified ==
    \A c \in DOMAIN call :
        (call[c].pc = "done" /\ call[c].error # <<>>)
        => \/ IsConfigError(call[c].error) \/ IsAuthError(call[c].error)
           \/ IsValidationError(call[c].error) \/ IsLocationNotFound(call[c].error)
           \/ IsSearchError(call[c].error) \/ IsNetworkError(call[c].error)

\* The availability answer that reaches invocation c is non-2xx with an
\* errors[0] that has a title or a code.
ApiErrorArrives(c) ==
    /\ call[c].pc = "awaitSearch" /\ call'[c] # call[c]
    /\ net[c].resp # <<>> /\ net[c].resp[1].class = "errApi"
    /\ (net[c].resp[1].first.title # "" \/ net[c].resp[1].first.code # "")

\* C17: on a non-2xx availability answer whose errors[0] has a title or a
\* code, the error of searchHotels is a SearchError whose message has that
\* title or that code.
C17_ProviderErrorSurfaced ==
    [][\A c \in DOMAIN call :
          ApiErrorArrives(c)
          => /\ IsSearchError(call'[c].error)
             /\ \/ /\ net[c].resp[1].first.title # ""
                   /\ Includes(call'[c].error, net[c].resp[1].first.title)
                \/ /\ net[c].resp[1].first.code # ""
                   /\ Includes(call'[c].error, net[c].resp[1].first.code)]_vars

\* C18 as claimed: when getAmadeusAccessToken has thrown, the message of the
\* error of searchHotels ends with the whole message it threw, and is of its
\* kind.
C18_TokenErrorVerbatim ==
    \A c \in DOMAIN call :
        (call[c].pc = "done" /\ call[c].tokenError # <<>>)
        => /\ Len(call[c].error) >= Len(call[c].tokenError)
           /\ SubSeq(call[c].error, Len(call[c].error) - Len(call[c].tokenError) + 1,
                     Len(call[c].error)) = call[c].tokenError
           /\ IsConfigError(call[c].tokenError) = IsConfigError(call[c].error)
           /\ IsAuthError(call[c].tokenError) = IsAuthError(call[c].error)

\* C18 as amended: the error of searchHotels is of the kind of the error
\* getAmadeusAccessToken threw; thrown for the location lookup its message
\* follows "Failed to prepare search", thrown for the availability query it
\* is replaced by the text of booking.ts:471.
C18_TokenErrorKindKept ==
    \A c \in DOMAIN call :
        (call[c].pc = "done" /\ call[c].tokenError # <<>>)
        => /\ IsConfigError(call[c].tokenError) = IsConfigError(call[c].error)
           /\ IsAuthError(call[c].tokenError) = IsAuthError(call[c].error)
           /\ IsConfigError(call[c].error) # IsAuthError(call[c].error)
           /\ (call[c].criteria.cityCode = NoCode /\ call[c].nLoc = 0)
                 => call[c].error = <<"Failed to prepare search">> \o call[c].tokenError
           /\ ~(call[c].criteria.cityCode = NoCode /\ call[c].nLoc = 0)
                 => /\ call[c].error[1] = "Authentication with the hotel service failed."
                    /\ Len(call[c].error) = 2

\* C18's case: after the lookup, the token endpoint refused the credentials at
\* the token for the availability query, and the message was replaced.
C18_Witness ==
    \E c \in DOMAIN call :
        /\ call[c].pc = "done"
        /\ call[c].tokenError = <<"Failed to get Amadeus token:", "Invalid Credentials">>
        /\ call[c].criteria.cityCode = NoCode /\ call[c].nLoc = 1
        /\ call[c].error = <<"Authentication with the hotel service failed.",
                             "Check server API credentials.">>

\* The token endpoint's refusal (or a failure of the request) reaches the
\* getAmadeusAccessToken that invocation c awaits.
TokenFails(c) ==
    /\ call[c].pc = "awaitToken" /\ call'[c] # call[c]
    /\ net[c].resp # <<>> /\ net[c].resp[1].class # "ok"

\* C19: a failed token request leaves the cache as it was, holding no valid
\* token; the next call of getAmadeusAccessToken sends a new token request,
\* and when that one is answered with a token, the token is cached and
\* returned.
C19_RetryAfterAuthError ==
    [][\A c \in DOMAIN call :
          /\ TokenFails(c)
                => /\ cachedToken' = cachedToken
                   /\ ~(cachedToken' # NoToken /\ cachedToken'.expiry > now)
          /\ (call[c].pc = "idle" /\ call[c].retry /\ call'[c] # call[c]
              /\ call'[c].pc # "done")
                => SendsTokenRequest(c) /\ call'[c].nTok = 1
          /\ (call[c].retry /\ TokenArrives(c))
                => /\ cachedToken'.token = net[c].resp[1].access_token
                   /\ net'[c].bearer = net[c].resp[1].access_token]_vars

\* C19's case: the caller's previous Search ended on a refused token
\* request; this one has requested a token once and sent its next request
\* with the new token, the second the provider issued, now the cached one.
C19_Witness ==
    \E c \in DOMAIN call :
        /\ call[c].retry /\ call[c].nTok = 1
        /\ call[c].pc \in {"awaitLocation", "awaitSearch"}
        /\ Len(issued) = 2
        /\ cachedToken.token = 2 /\ net[c].bearer = 2

\* C20: every Search that has started comes to its end.
C20_SearchTerminates ==
    \A c \in {"s1"} : (call[c].pc # "idle") ~> (call[c].pc = "done")

\* The error of simulateBookHotel that reports a payment of the wrong shape.
IsPaymentValidationError(msg) == Includes(msg, "Simulated payment validation failed.")

\* C21: the Trip of a successful simulateBookHotel carries the price of its
\* hotel as its totalPrice, whatever the stay and the number of guests.
C21_TotalPriceIsHotelPrice ==
    \A c \in DOMAIN op :
        (op[c].kind = "book" /\ op[c].trip # NoTrip)
        => op[c].trip.totalPrice = op[c].trip.hotel.pricePerNight

\* C21's case: a stay of two nights for two guests in a hotel priced 300 is
\* booked at 300 and stored.
C21_Witness ==
    \E c \in DOMAIN op :
        /\ op[c].kind = "book" /\ op[c].pc = "done" /\ op[c].error = <<>>
        /\ op[c].trip.checkOutDate - op[c].trip.checkInDate = 2
        /\ op[c].trip.numberOfGuests = 2
        /\ op[c].trip.hotel.pricePerNight = 300
        /\ op[c].trip.totalPrice = 300
        /\ \E i \in 1..Len(ecoTrips) : ecoTrips[i] = op[c].trip

\* The shapes that the payment methods require: a card number of 16 digits,
\* an expiry MM/YY and a CVC of 3 or 4 digits for the card methods; for
\* paypal an address with one "@", no blank, something before the "@" and,
\* after it, a dot with something on either side.
Months ==
    {<<"0", "1">>, <<"0", "2">>, <<"0", "3">>, <<"0", "4">>, <<"0", "5">>, <<"0", "6">>,
     <<"0", "7">>, <<"0", "8">>, <<"0", "9">>, <<"1", "0">>, <<"1", "1">>, <<"1", "2">>}
HasCardShape(pd) ==
    /\ pd.cardNumber \in [1..16 -> Digits]
    /\ Len(pd.expiryDate) = 5
    /\ <<pd.expiryDate[1], pd.expiryDate[2]>> \in Months
    /\ pd.expiryDate[3] = "/"
    /\ {pd.expiryDate[4], pd.expiryDate[5]} \subseteq Digits
    /\ pd.cvc \in [1..3 -> Digits] \cup [1..4 -> Digits]
HasEmailShape(s) ==
    /\ Cardinality({i \in 1..Len(s) : s[i] = "@"}) = 1
    /\ \A i \in 1..Len(s) : s[i] # " "
    /\ LET at == CHOOSE i \in 1..Len(s) : s[i] = "@"
       IN  /\ at > 1
           /\ \E i \in (at + 2)..(Len(s) - 1) : s[i] = "."
HasRequiredShape(pd) ==
    \/ pd.method \in {"creditCard", "debitCard"} /\ HasCardShape(pd)
    \/ pd.method = "paypal" /\ HasEmailShape(pd.paypalEmail)

\* C22: a booking whose payment details lack the shape that their method
\* requires ends at once on the payment validation error, with no Trip made
\* and the trip store as it was.
C22_InvalidPaymentBooksNothing ==
    [][\A c \in DOMAIN op :
          (/\ op'[c] # op[c] /\ op'[c].kind = "book"
           /\ ~HasRequiredShape(op'[c].paymentDetails))
          => /\ op'[c].pc = "done"
             /\ IsPaymentValidationError(op'[c].error)
             /\ op'[c].trip = NoTrip
             /\ ecoTrips' = ecoTrips]_vars

\* C22's case: after one booking is stored, a credit card with a CVC of two
\* digits is refused.
C22_Witness ==
    \E c \in DOMAIN op :
        /\ op[c].kind = "book" /\ op[c].pc = "done"
        /\ op[c].paymentDetails.method = "creditCard"
        /\ op[c].paymentDetails.cardNumber = Text(16, "4")
        /\ op[c].paymentDetails.cvc = <<"1", "2">>
        /\ IsPaymentValidationError(op[c].error)
        /\ Len(ecoTrips) = 1

\* C23: transformAmadeusHotelOffer returns a Hotel for every raw offer and
\* never raises.
C23_NormalizeNeverRaises ==
    nOut # <<>> => nOut[1] # TypeErrorThrown

\* The stars that a provider rating reads as, an integer as section 4.4 of
\* the specification parses it; 0 for an absent or unparsable rating.
StarsOf(text) ==
    CASE text \in {"1", "3", "5", "6"} ->
             (CHOOSE p \in {<<"1", 1>>, <<"3", 3>>, <<"5", 5>>, <<"6", 6>>} : p[1] = text)[2]
      [] text = "4.7" -> 4
      [] text = "-2" -> 0 - 2
      [] OTHER -> 0

\* C24: the normalized rating of an offer is its provider rating when that
\* is an integer from 1 to 5, and a value from 3.0 to 4.5 when the provider
\* rating is absent, unparsable or outside 1..5 (ratings in tenths).
C24_RatingFallbackWithinBounds ==
    (nOut # <<>> /\ nRaw.hotel)
    => IF StarsOf(nRaw.rating) \in 1..5
       THEN nOut[1].rating = 10 * StarsOf(nRaw.rating)
       ELSE nOut[1].rating >= 30 /\ nOut[1].rating <= 45

\* C24's case: a provider rating of 6 is normalized to 4.5.
C24_Witness ==
    /\ nOut # <<>> /\ nRaw.hotel
    /\ nRaw.rating = "6"
    /\ nOut[1].rating = 45

\* The number that the total of a price block reads as.
AmountOf(total) == IF total = "89.00" THEN 89 ELSE IF total = "300.00" THEN 300 ELSE 0

\* C25: the price and the currency of the Hotel are those of the price block
\* of the first sub-offer, the price 0 when there is no total; and a search
\* answered with one valid offer priced "300.00" USD returns one Hotel
\* priced 300 in USD.
C25_PriceAndCurrencyOfFirstSubOffer ==
    /\ (nOut # <<>> /\ nRaw.hotel)
       => /\ nOut[1].pricePerNight =
                IF nRaw.offers # <<>> /\ nRaw.offers[1].price /\ nRaw.offers[1].total # ""
                THEN AmountOf(nRaw.offers[1].total) ELSE 0
          /\ (nRaw.offers # <<>> /\ nRaw.offers[1].price /\ nRaw.offers[1].currency # "")
             => nOut[1].currency = nRaw.offers[1].currency
    /\ \A c \in DOMAIN call :
          call[c].pc = "done"
          => /\ call[c].error = <<>>
             /\ Len(call[c].hotels) = 1
             /\ call[c].hotels[1].pricePerNight = 300
             /\ call[c].hotels[1].currency = "USD"

\* C25's case: the search has returned its Hotel, and an offer whose first
\* sub-offer costs 89.00 EUR and whose second costs 300.00 USD is normalized
\* to 89 EUR.
C25_Witness ==
    /\ \E c \in DOMAIN call : call[c].pc = "done" /\ Len(call[c].hotels) = 1
    /\ nOut # <<>> /\ nRaw.hotel
    /\ Len(nRaw.offers) = 2
    /\ nRaw.offers[1] = SubOffer("89.00", "EUR")
    /\ nRaw.offers[2] = SubOffer("300.00", "USD")
    /\ nOut[1].pricePerNight = 89 /\ nOut[1].currency = "EUR"

\* A query with fewer than two characters once the blanks around it are
\* taken away: one with at most one character that is not a blank.
FewerThanTwoCharacters(query) ==
    Cardinality({i \in 1..Len(query) : query[i] # " "}) < 2

\* C26: suggestLocations raises nothing; it returns no suggestion for a
\* query of fewer than two characters, without credentials, after a token
\* failure and after an answer that is not a parsed 2xx; and every
\* suggestion it returns is a CITY with an IATA code.
C26_SuggestNeverRaises ==
    \A c \in DOMAIN sug :
        /\ sug[c].thrown = <<>>
        /\ sug[c].pc = "done"
           => /\ (\/ FewerThanTwoCharacters(sug[c].query)
                  \/ ~apiKey \/ ~apiSecret
                  \/ sug[c].tokenFailed
                  \/ sug[c].answer = <<>>
                  \/ sug[c].answer[1].class # "ok")
                 => sug[c].suggestions = <<>>
              /\ \A i \in 1..Len(sug[c].suggestions) :
                    /\ sug[c].suggestions[i].subType = "CITY"
                    /\ sug[c].suggestions[i].iataCode # ""

\* C26's case: of two locations answered, an airport and a city with its
\* code, the city alone is suggested.
C26_Witness ==
    \E c \in DOMAIN sug :
        /\ sug[c].pc = "done" /\ sug[c].answer # <<>>
        /\ Len(sug[c].answer[1].data) = 2
        /\ sug[c].answer[1].data[1].subType = "AIRPORT"
        /\ sug[c].answer[1].data[1].iataCode # ""
        /\ Len(sug[c].suggestions) = 1
        /\ sug[c].suggestions[1].iataCode = "PAR"

\* The ids of the stored trips are pairwise distinct.
UniqueIds(store) ==
    \A i \in 1..Len(store) : \A j \in 1..Len(store) :
        store[i].id = store[j].id => i = j
StoredIds(store) == {store[i].id : i \in 1..Len(store)}

\* C27: operations that follow one another leave no two stored trips with
\* one id, and addTrip of a trip whose id is stored leaves the store as it
\* is.
C27_UniqueIdsAndIdempotentAdd ==
    [][/\ UniqueIds(ecoTrips')
       /\ \A c \in DOMAIN op :
             (/\ op[c].pc = "read" /\ op[c].kind = "add" /\ op'[c].pc = "done"
              /\ op[c].tripId \in StoredIds(ecoTrips))
             => ecoTrips' = ecoTrips]_vars

\* C28: one invocation of searchHotels sends at most one token request.
C28_OneTokenRequestPerSearch ==
    \A c \in DOMAIN call : call[c].nTok <= 1

\* C29: the write of an operation on one id keeps every stored trip of
\* another id in the store, and the write of addTrip leaves its trip in the
\* store: two addTrip calls on distinct ids that both read before either
\* writes end with both trips stored.
C29_NoTripLostByInterleaving ==
    [][\A c \in DOMAIN op :
          (op[c].pc = "read" /\ op'[c].pc = "done")
          => /\ \A i \in 1..Len(ecoTrips) :
                   ecoTrips[i].id # op[c].tripId
                   => \E j \in 1..Len(ecoTrips') : ecoTrips'[j] = ecoTrips[i]
             /\ op[c].kind = "add"
                => \E j \in 1..Len(ecoTrips') : ecoTrips'[j].id = op[c].tripId]_vars

\* The stored collection without the trip of an id, the order kept.
WithoutTrip(store, tripId) ==
    LET other(trip) == trip.id # tripId IN SelectSeq(store, other)

\* C30: removeTrip and updateTrip of an id that is not stored leave the
\* store as it is; of a stored id, removeTrip takes that trip away and
\* updateTrip replaces it, every other trip and the order staying.
C30_RemoveAndUpdateFrame ==
    [][\A c \in DOMAIN op :
          (op[c].pc = "read" /\ op'[c].pc = "done" /\ op[c].kind \in {"remove", "update"})
          => IF op[c].tripId \notin StoredIds(ecoTrips)
             THEN ecoTrips' = ecoTrips
             ELSE /\ op[c].kind = "remove"
                     => ecoTrips' = WithoutTrip(ecoTrips, op[c].tripId)
                  /\ op[c].kind = "update"
                     => \A i \in 1..Len(ecoTrips) :
                           ecoTrips[i].id # op[c].tripId
                           => /\ Len(ecoTrips') = Len(ecoTrips)
                              /\ ecoTrips'[i] = ecoTrips[i]]_vars

====
